---- MODULE Spec2Model ----
(***************************************************************************)
(* SmartStorage: the duplicate analyzer (scanner/duplicate_finder.py), the *)
(* directory scanner (scanner/scanner.py, scanner/hash_utils.py), the scan  *)
(* callers (cli/scan.py, ui/app.py) and the index loaders                   *)
(* (cli/find_duplicates.py, ui/app.py).                                     *)
(***************************************************************************)
EXTENDS Integers, Sequences, FiniteSets, TLC

(***************************************************************************)
(* Bounds of the model.                                                    *)
(***************************************************************************)
\* longest list of records handed to the duplicate analyzer
MaxRecords == 3
\* most entries of the scanned tree that are not a plain readable file or directory
MaxFaults == 2
\* most scan_directory calls one caller makes on its FileScanner
MaxScans == 2
\* scan jobs (perform_scan threads and scan.py processes) in one behaviour
MaxJobs == 2
\* longest text of an index file handed to the loaders, in tokens
MaxTokens == 3

(***************************************************************************)
(* Python values.                                                          *)
(***************************************************************************)
\* dict.get(key) of a key the record does not carry
None == "None"

\* `not x` for x a str or None
Falsy(x) == x = None \/ x = ""

VARIABLES
    file_metadata,      \* analyzer: the list of records under analysis
    duplicate_groups,   \* analyzer: result of find_duplicates
    stats,              \* analyzer: result of count_duplicates
    wasted_space,       \* analyzer: result of calculate_wasted_space
    apc,                \* analyzer: position in the analysis
    fs,                 \* file system: what each path of the tree is
    scanner,            \* per job: its FileScanner and the scan_directory call in progress
    sink,               \* per job: the messages its progress callback was invoked with
    callback,           \* scan caller: the progress callback it passes from its 2nd call on
    calls,              \* scan caller: scan_directory calls made so far
    outcomes,           \* scan caller: outcome of each finished call
    scan_status,        \* ui/app.py: the global scan_status
    job,                \* per job: the perform_scan thread or scan.py process that runs it
    index,              \* the index file at config.INDEX_FILE_PATH
    completed,          \* the job whose index save was over last (0: none yet)
    reply               \* what the last load of the index gave its caller

analyzerVars == <<file_metadata, duplicate_groups, stats, wasted_space, apc>>
scanVars == <<fs, scanner, sink, scan_status>>
callerVars == <<callback, calls, outcomes>>
appVars == <<job, index, completed, reply>>

vars == <<analyzerVars, scanVars, callerVars, appVars>>

(***************************************************************************)
(* Duplicate analyzer: scanner/duplicate_finder.py                         *)
(***************************************************************************)
\* values the fields of a record handed to the analyzer may take
PathValues == {None, "/a", "/b"}
HashValues == {"", "H1", "H2"}
SizeValues == {100, 200}
Records == [path : PathValues, hash : HashValues, size : SizeValues]

RECURSIVE SeqsUpTo(_, _)
SeqsUpTo(S, n) ==
    IF n = 0 THEN {<<>>}
    ELSE LET shorter == SeqsUpTo(S, n - 1)
         IN  shorter \cup {Append(s, x) : s \in {t \in shorter : Len(t) = n - 1}, x \in S}

RECURSIVE SumSeq(_)
SumSeq(s) == IF s = <<>> THEN 0 ELSE Head(s) + SumSeq(Tail(s))

\* position of key h in an insertion-ordered dict (0: h is no key of it)
KeyIndex(d, h) ==
    IF \E i \in 1..Len(d) : d[i].key = h
    THEN CHOOSE i \in 1..Len(d) : d[i].key = h
    ELSE 0

\* hash_groups[file_hash].append(file_path), creating the entry first
AddPath(hash_groups, file_hash, file_path) ==
    LET i == KeyIndex(hash_groups, file_hash)
    IN  IF i = 0
        THEN Append(hash_groups, [key |-> file_hash, paths |-> <<file_path>>])
        ELSE [hash_groups EXCEPT ![i].paths = Append(@, file_path)]

\* the loop of find_duplicates over file_metadata
RECURSIVE GroupByHash(_, _)
GroupByHash(metadata, hash_groups) ==
    IF metadata = <<>> THEN hash_groups
    ELSE LET file_info == Head(metadata)
             file_hash == file_info.hash
             file_path == file_info.path
         IN  IF Falsy(file_hash) \/ Falsy(file_path)
             THEN GroupByHash(Tail(metadata), hash_groups)
             ELSE GroupByHash(Tail(metadata), AddPath(hash_groups, file_hash, file_path))

\* a faulty variant of IsDuplicateGroup: every group is kept
IsDuplicateGroupAny(paths) == Len(paths) > 0

\* the filter of find_duplicates: only groups of 2+ files
IsDuplicateGroup(paths) == Len(paths) > 1

\* the entries of hash_groups that find_duplicates keeps, with their keys
DuplicateEntries(metadata) ==
    LET Keep(e) == IsDuplicateGroup(e.paths)
    IN  SelectSeq(GroupByHash(metadata, <<>>), Keep)

find_duplicates(metadata) ==
    LET kept == DuplicateEntries(metadata)
    IN  [i \in 1..Len(kept) |-> kept[i].paths]

count_duplicates(metadata) ==
    LET groups == find_duplicates(metadata)
    IN  [groups |-> Len(groups),
         files  |-> SumSeq([i \in 1..Len(groups) |-> Len(groups[i])])]

\* hash_groups[file_hash]["count"] += 1, creating the entry with the size first
AddCount(hash_groups, file_hash, file_size) ==
    LET i == KeyIndex(hash_groups, file_hash)
    IN  IF i = 0
        THEN Append(hash_groups, [key |-> file_hash, count |-> 1, size |-> file_size])
        ELSE [hash_groups EXCEPT ![i].count = @ + 1]

\* the first loop of calculate_wasted_space
RECURSIVE CountByHash(_, _)
CountByHash(metadata, hash_groups) ==
    IF metadata = <<>> THEN hash_groups
    ELSE LET file_info == Head(metadata)
             file_hash == file_info.hash
             file_size == file_info.size
         IN  IF Falsy(file_hash)
             THEN CountByHash(Tail(metadata), hash_groups)
             ELSE CountByHash(Tail(metadata), AddCount(hash_groups, file_hash, file_size))

calculate_wasted_space(metadata) ==
    LET hash_groups == CountByHash(metadata, <<>>)
    IN  SumSeq([i \in 1..Len(hash_groups) |->
                  IF hash_groups[i].count > 1
                  THEN (hash_groups[i].count - 1) * hash_groups[i].size
                  ELSE 0])

\* cli/find_duplicates.py main: the analysis of the loaded files
AnalyzerInit ==
    /\ file_metadata \in SeqsUpTo(Records, MaxRecords)
    /\ duplicate_groups = <<>>
    /\ stats = [groups |-> 0, files |-> 0]
    /\ wasted_space = 0
    /\ apc = "loaded"

\* no analysis is going on
AnalyzerIdle ==
    /\ file_metadata = <<>>
    /\ duplicate_groups = <<>>
    /\ stats = [groups |-> 0, files |-> 0]
    /\ wasted_space = 0
    /\ apc = "idle"

FindDuplicates ==
    /\ apc = "loaded"
    /\ duplicate_groups' = find_duplicates(file_metadata)
    /\ apc' = "found"
    /\ UNCHANGED <<file_metadata, stats, wasted_space>>

CountDuplicates ==
    /\ apc = "found"
    /\ stats' = count_duplicates(file_metadata)
    /\ apc' = "counted"
    /\ UNCHANGED <<file_metadata, duplicate_groups, wasted_space>>

CalculateWastedSpace ==
    /\ apc = "counted"
    /\ wasted_space' = calculate_wasted_space(file_metadata)
    /\ apc' = "done"
    /\ UNCHANGED <<file_metadata, duplicate_groups, stats>>

(***************************************************************************)
(* The file system a scan walks.                                           *)
(***************************************************************************)
Root == "/r"
D1 == "/r/d1"
F1 == "/r/f1"
F2 == "/r/f2"
F3 == "/r/d1/f3"

Dirs == {Root, D1}
Files == {F1, F2, F3}
Nodes == Dirs \cup Files

\* Path.iterdir(): the entries of a directory, in the order the file system lists them
Children(d) ==
    CASE d = Root -> <<D1, F1, F2>>
      [] d = D1   -> <<F3>>
      [] OTHER    -> <<>>

\* Path.name
BaseName(p) ==
    CASE p = F1 -> "f1"
      [] p = F2 -> "f2"
      [] p = F3 -> "f3"
      [] p = D1 -> "d1"
      [] OTHER  -> "r"

\* the bytes of each file: F1 and F3 are copies of each other
FileContent(p) == IF p = F2 THEN "bytes-2" ELSE "bytes-1"

\* stat().st_size
StSize(p) == IF FileContent(p) = "bytes-1" THEN 100 ELSE 200

\* hashlib.sha256(...).hexdigest(): 64 hex digits, one value per content
Sha256Hex(content) == IF content = "bytes-1" THEN "H1" ELSE "H2"

\* What a path is, and how access to it fails:
\*   "dir"            a directory that lists
\*   "dir_list_err"   a directory whose iterdir() raises PermissionError/OSError
\*   "file"           a regular file that stats and reads
\*   "file_stat_err"  a regular file whose stat() in _collect_file_info raises OSError
\*   "file_vanishes"  a regular file that is no file any more when it is hashed
\*   "file_read_err"  a regular file whose open()/read() raises OSError
\*   "stat_denied"    an entry whose is_dir() raises PermissionError
\*   "other"          an entry that is neither a directory nor a regular file
\*   "absent"         no such path
DirModes == {"dir", "dir_list_err", "stat_denied"}
FileModes == {"file", "file_stat_err", "file_vanishes", "file_read_err", "stat_denied", "other"}
RootModes == {"dir", "dir_list_err", "file", "absent"}

ModesOf(n) == IF n = Root THEN RootModes ELSE IF n \in Dirs THEN DirModes ELSE FileModes

IsFault(m) == m \notin {"dir", "file"}

\* Path.exists(), Path.is_dir(), Path.is_file() where they do not raise
Exists(m) == m # "absent"
IsDir(m) == m \in {"dir", "dir_list_err"}
IsFile(m) == m \in {"file", "file_stat_err", "file_vanishes", "file_read_err"}

\* the record a scan makes of file f when it stats and reads
RecordOf(f) ==
    [path |-> f, size |-> StSize(f), name |-> BaseName(f),
     hash |-> Sha256Hex(FileContent(f))]

(***************************************************************************)
(* scanner/hash_utils.py                                                   *)
(***************************************************************************)
\* generate_file_hash: "" when the path is no regular file or a read fails
generate_file_hash(p, m) ==
    IF m = "file_vanishes" THEN ""
    ELSE IF m = "file_read_err" THEN ""
    ELSE Sha256Hex(FileContent(p))

(***************************************************************************)
(* scanner/scanner.py: FileScanner                                         *)
(***************************************************************************)
\* len(self.scanned_files) % 100 == 0
MilestoneEvery == 100

\* except (PermissionError, OSError)
IsOSError(e) == e \in {"PermissionError", "OSError"}

\* progress_callback=None
NoCallback == [present |-> FALSE, failOn |-> "never", exc |-> "OSError"]

\* a callback that returns normally on every message
QuietCallback == [present |-> TRUE, failOn |-> "never", exc |-> "OSError"]

\* the messages scan_directory and _scan_recursive pass to the callback
MessageKinds == {"start", "scanning", "found", "skipped", "skipped_dir", "complete"}

\* callbacks: one that always returns, and those that raise exc on one kind of message
Callbacks ==
    {QuietCallback} \cup
    [present : {TRUE}, failOn : MessageKinds, exc : {"OSError", "RuntimeError"}]

\* FileScanner.__init__
NewScanner ==
    [scanned_files |-> <<>>, stack |-> <<>>, exc |-> "none", state |-> "idle",
     err |-> "none", cb |-> NoCallback, emitted |-> <<>>]

\* `if progress_callback: progress_callback(...)`: the message is handed to the callback
\* a message names a path (path) or reports len(self.scanned_files) (count)
Emit(sc, kind, path) ==
    IF sc.cb.present
    THEN [sc EXCEPT !.emitted = Append(@, [kind |-> kind, path |-> path,
                                           count |-> Len(sc.scanned_files)])]
    ELSE sc

\* the callback raises on this message
Raises(sc, kind) == sc.cb.present /\ sc.cb.failOn = kind

\* the result of _collect_file_info: a record or None, written <<record>> or <<>>
NoFileInfo == <<>>

\* a faulty variant of collect_file_info: the check of the hash is missing
collect_file_info_unchecked(p, m) ==
    IF m = "file_stat_err" THEN NoFileInfo
    ELSE <<[path |-> p, size |-> StSize(p), name |-> BaseName(p),
            hash |-> generate_file_hash(p, m)]>>

\* _collect_file_info: None when stat() raises or the hash is empty
collect_file_info(p, m) ==
    IF m = "file_stat_err" THEN NoFileInfo
    ELSE LET file_hash == generate_file_hash(p, m)
         IN  IF file_hash = "" THEN NoFileInfo
             ELSE <<[path |-> p, size |-> StSize(p), name |-> BaseName(p),
                     hash |-> file_hash]>>

Top(sc) == sc.stack[Len(sc.stack)]

\* _scan_recursive returns (e = "none") or raises e to its caller
Leave(sc, e) ==
    [sc EXCEPT !.stack = SubSeq(@, 1, Len(@) - 1), !.exc = e]

\* an exception reaches the outer try of the running _scan_recursive (line 83)
OuterExcept(sc, e) ==
    IF IsOSError(e)
    THEN LET told == Emit(sc, "skipped_dir", Top(sc).dir)
         IN  IF Raises(sc, "skipped_dir") THEN Leave(told, sc.cb.exc)
             ELSE Leave(told, "none")
    ELSE Leave(sc, e)

\* a faulty variant of InnerExcept: the handler of line 77 is missing
InnerExceptMissing(sc, e) == OuterExcept(sc, e)

\* an exception is raised inside the inner try, for the current item (line 77)
InnerExcept(sc, e) ==
    IF IsOSError(e)
    THEN LET told == Emit(sc, "skipped", Top(sc).cur)
         IN  IF Raises(sc, "skipped") THEN OuterExcept(told, sc.cb.exc)
             ELSE told
    ELSE OuterExcept(sc, e)

\* a faulty variant of BeginScan: "Starting scan..." is reported before the path is validated
BeginScanNotifiesFirst(sc, directory_path, m, progress_callback) ==
    LET reset == [sc EXCEPT !.scanned_files = <<>>, !.cb = progress_callback,
                            !.stack = <<>>, !.exc = "none", !.err = "none"]
        told == Emit(reset, "start", "")
    IN  IF Raises(reset, "start")
        THEN [told EXCEPT !.state = "raised", !.err = progress_callback.exc]
        ELSE IF ~Exists(m) \/ ~IsDir(m)
        THEN [told EXCEPT !.state = "raised", !.err = "ValueError"]
        ELSE [told EXCEPT !.state = "running",
                          !.stack = <<[dir |-> directory_path, listed |-> FALSE,
                                       items |-> <<>>, cur |-> None]>>]

\* scan_directory up to the call of _scan_recursive (lines 29-42)
BeginScan(sc, directory_path, m, progress_callback) ==
    LET reset == [sc EXCEPT !.scanned_files = <<>>, !.cb = progress_callback,
                            !.stack = <<>>, !.exc = "none", !.err = "none"]
    IN  IF ~Exists(m) \/ ~IsDir(m)
        THEN [reset EXCEPT !.state = "raised", !.err = "ValueError"]
        ELSE LET told == Emit(reset, "start", "")
             IN  IF Raises(reset, "start")
                 THEN [told EXCEPT !.state = "raised", !.err = progress_callback.exc]
                 ELSE [told EXCEPT !.state = "running",
                                   !.stack = <<[dir |-> directory_path, listed |-> FALSE,
                                                items |-> <<>>, cur |-> None]>>]

\* path.iterdir() of the running _scan_recursive (line 59)
ListDir(sc, files) ==
    LET d == Top(sc).dir
        Listed(c) == Exists(files[c])
    IN  IF files[d] # "dir"
        THEN OuterExcept(sc, "PermissionError")
        ELSE [sc EXCEPT !.stack[Len(sc.stack)].listed = TRUE,
                        !.stack[Len(sc.stack)].items = SelectSeq(Children(d), Listed)]

\* a regular file: lines 66-75
VisitFile(sc, item, m) ==
    LET told == Emit(sc, "scanning", item)
        file_info == collect_file_info(item, m)
        added == IF file_info = NoFileInfo THEN told
                 ELSE [told EXCEPT !.scanned_files = Append(@, file_info[1])]
        counted == Emit(added, "found", "")
    IN  IF Raises(sc, "scanning") THEN InnerExcept(told, sc.cb.exc)
        ELSE IF sc.cb.present /\ Len(added.scanned_files) % MilestoneEvery = 0
             THEN IF Raises(sc, "found") THEN InnerExcept(counted, sc.cb.exc)
                  ELSE counted
             ELSE added

\* one turn of the loop over the entries (lines 59-81)
VisitItem(sc, files) ==
    LET item == Head(Top(sc).items)
        m == files[item]
        at == [sc EXCEPT !.stack[Len(sc.stack)].items = Tail(@),
                         !.stack[Len(sc.stack)].cur = item]
    IN  IF m = "stat_denied" THEN InnerExcept(at, "PermissionError")
        ELSE IF IsDir(m)
             THEN [at EXCEPT !.stack = Append(@, [dir |-> item, listed |-> FALSE,
                                                  items |-> <<>>, cur |-> None])]
        ELSE IF IsFile(m) THEN VisitFile(at, item, m)
        ELSE at

\* scan_directory after _scan_recursive (lines 42-47)
EndScan(sc) ==
    IF sc.exc # "none"
    THEN [sc EXCEPT !.state = "raised", !.err = sc.exc, !.exc = "none"]
    ELSE LET told == Emit(sc, "complete", "")
         IN  IF Raises(sc, "complete")
             THEN [told EXCEPT !.state = "raised", !.err = sc.cb.exc]
             ELSE [told EXCEPT !.state = "returned"]

Jobs == 1..MaxJobs

\* ui/app.py progress_callback (lines 140-143), run on the messages of one step
StatusAfter(j, messages) ==
    IF job[j].kind = "web" /\ messages # <<>>
    THEN [scan_status EXCEPT
             !.progress_message = [kind |-> messages[Len(messages)].kind,
                                   path |-> messages[Len(messages)].path],
             !.files_found = messages[Len(messages)].count]
    ELSE scan_status

\* what the callback of job j does with the messages of one step
Deliver(j, after) ==
    /\ scanner' = [scanner EXCEPT ![j] = [after EXCEPT !.emitted = <<>>]]
    /\ sink' = [sink EXCEPT ![j] = @ \o after.emitted]
    /\ scan_status' = StatusAfter(j, after.emitted)

\* the running _scan_recursive lists its directory
Iterdir(j) ==
    /\ scanner[j].state = "running"
    /\ scanner[j].exc = "none"
    /\ scanner[j].stack # <<>>
    /\ ~Top(scanner[j]).listed
    /\ Deliver(j, ListDir(scanner[j], fs))
    /\ UNCHANGED fs

\* the running _scan_recursive handles its next entry
NextItem(j) ==
    /\ scanner[j].state = "running"
    /\ scanner[j].exc = "none"
    /\ scanner[j].stack # <<>>
    /\ Top(scanner[j]).listed
    /\ Top(scanner[j]).items # <<>>
    /\ Deliver(j, VisitItem(scanner[j], fs))
    /\ UNCHANGED fs

\* the running _scan_recursive has no entry left and returns
ReturnFromDir(j) ==
    /\ scanner[j].state = "running"
    /\ scanner[j].exc = "none"
    /\ scanner[j].stack # <<>>
    /\ Top(scanner[j]).listed
    /\ Top(scanner[j]).items = <<>>
    /\ Deliver(j, Leave(scanner[j], "none"))
    /\ UNCHANGED fs

\* a nested _scan_recursive raised: the exception arrives at line 63 of its caller
Propagate(j) ==
    /\ scanner[j].state = "running"
    /\ scanner[j].exc # "none"
    /\ scanner[j].stack # <<>>
    /\ Deliver(j, InnerExcept([scanner[j] EXCEPT !.exc = "none"], scanner[j].exc))
    /\ UNCHANGED fs

\* the outermost _scan_recursive is over: scan_directory returns or raises
FinishScan(j) ==
    /\ scanner[j].state = "running"
    /\ scanner[j].stack = <<>>
    /\ Deliver(j, EndScan(scanner[j]))
    /\ UNCHANGED fs

\* no scan is going on
ScanIdle ==
    /\ scanner = [j \in Jobs |-> NewScanner]
    /\ sink = [j \in Jobs |-> <<>>]
    /\ scan_status = [is_scanning |-> FALSE,
                      progress_message |-> [kind |-> "", path |-> ""],
                      files_found |-> 0]

(***************************************************************************)
(* A caller that scans the same tree MaxScans times with one FileScanner:  *)
(* first without a progress callback, then with the callback it holds.     *)
(***************************************************************************)
Caller == 1

\* the trees: every entry in one of its modes, at most MaxFaults of them faulty
Trees ==
    {t \in [Nodes -> RootModes \cup DirModes \cup FileModes] :
        /\ \A n \in Nodes : t[n] \in ModesOf(n)
        /\ Cardinality({n \in Nodes : IsFault(t[n])}) <= MaxFaults}

CallerInit ==
    /\ fs \in Trees
    /\ callback \in Callbacks
    /\ calls = 0
    /\ outcomes = <<>>

\* no such caller
CallerIdle ==
    /\ callback = NoCallback
    /\ calls = 0
    /\ outcomes = <<>>

\* what a finished scan_directory call gave its caller
Outcome(sc) ==
    [callback |-> sc.cb, raised |-> sc.state = "raised", err |-> sc.err,
     files |-> IF sc.state = "returned" THEN sc.scanned_files ELSE <<>>]

\* scanner.scan_directory(Root, progress_callback): the call begins, and is
\* over at once when it raises before the traversal
CallScanDirectory ==
    /\ calls < MaxScans
    /\ scanner[Caller].state \in {"idle", "returned", "raised"}
    /\ calls' = calls + 1
    /\ LET cb == IF calls = 0 THEN NoCallback ELSE callback
           begun == BeginScan(scanner[Caller], Root, fs[Root], cb)
       IN  /\ scanner' = [scanner EXCEPT ![Caller] = [begun EXCEPT !.emitted = <<>>]]
           /\ sink' = [sink EXCEPT ![Caller] = begun.emitted]
           /\ outcomes' = IF begun.state = "raised"
                          THEN Append(outcomes, Outcome(begun))
                          ELSE outcomes
    /\ UNCHANGED <<fs, callback, scan_status>>

\* the call returns to the caller, or raises
CallReturns ==
    /\ FinishScan(Caller)
    /\ outcomes' = Append(outcomes, Outcome(scanner'[Caller]))
    /\ UNCHANGED <<callback, calls>>

(***************************************************************************)
(* The index file: json.dump writes it, json.load reads it.                *)
(***************************************************************************)
\* the record slot of a token that carries no record
NoFile == [path |-> "", size |-> 0, name |-> "", hash |-> ""]

\* the text of the index, in pieces: {"total_files": n, "files": [ | one record | ]}
HeadToken(n) == [t |-> "head", total |-> n, file |-> NoFile]
FileToken(r) == [t |-> "file", total |-> 0, file |-> r]
EndToken == [t |-> "end", total |-> 0, file |-> NoFile]

\* json.dump({"total_files": len(files_data), "files": files_data}, f)
JsonDump(files_data) ==
    <<HeadToken(Len(files_data))>>
        \o [i \in 1..Len(files_data) |-> FileToken(files_data[i])]
        \o <<EndToken>>

\* the text parses as the JSON object of an index
JsonValid(text) ==
    /\ Len(text) >= 2
    /\ text[1].t = "head"
    /\ text[Len(text)].t = "end"
    /\ \A i \in 2..(Len(text) - 1) : text[i].t = "file"

\* json.load(f) of a text that parses
JsonLoad(text) ==
    [total_files |-> text[1].total,
     files |-> [i \in 1..(Len(text) - 2) |-> text[i + 1].file]]

\* no index file yet
NoIndex == [exists |-> FALSE, text |-> <<>>]

\* nothing has loaded the index
NoReply == [by |-> "", success |-> FALSE, error |-> "", total_files |-> 0, files |-> <<>>]

\* open(path, 'w'): the file is created or truncated
OpenForWriting == [exists |-> TRUE, text |-> <<>>]

\* the buffered text is written from offset 0 and the file is closed: what the
\* file holds beyond the text written stays
WriteAndClose(file, text) ==
    [exists |-> TRUE,
     text |-> text \o SubSeq(file.text, Len(text) + 1, Len(file.text))]

(***************************************************************************)
(* ui/app.py: POST /api/start-scan and perform_scan; cli/scan.py: main     *)
(***************************************************************************)
\* a path that never exists
Missing == "/nope"

\* what a path is now
ModeOf(p) == IF p \in Nodes THEN fs[p] ELSE "absent"

\* the directories a client may ask for
RequestedDirectories == {"", Missing, F1, D1}

\* directory: the argument a started perform_scan thread holds
FreeJob == [kind |-> "free", pc |-> "free", directory |-> "", wrote |-> FALSE]

AppIdle ==
    /\ job = [j \in Jobs |-> FreeJob]
    /\ index = NoIndex
    /\ completed = 0
    /\ reply = NoReply

\* POST /api/start-scan, answered 400: "Scan already in progress", "No directory
\* provided", "Directory does not exist" or "Path is not a directory". Nothing
\* of the server's state changes.
StartScanRejects(directory) ==
    /\ \/ scan_status.is_scanning
       \/ directory = ""
       \/ ~Exists(ModeOf(directory))
       \/ ~IsDir(ModeOf(directory))
    /\ UNCHANGED <<job, index, completed, reply, scanVars>>

\* POST /api/start-scan, answered "Scan started": the perform_scan thread of
\* job j is started
StartScanAccepts(j, directory) ==
    /\ job[j].kind = "free"
    /\ \A k \in 1..(j - 1) : job[k].kind # "free"
    /\ ~scan_status.is_scanning
    /\ directory # ""
    /\ Exists(ModeOf(directory))
    /\ IsDir(ModeOf(directory))
    /\ job' = [job EXCEPT ![j] = [kind |-> "web", pc |-> "begin",
                                  directory |-> directory, wrote |-> FALSE]]
    /\ UNCHANGED <<index, completed, reply, scanVars>>

\* perform_scan lines 131-145: the status is set, the scanner is made and
\* scan_directory is called
PerformScanBegins(j) ==
    /\ job[j].kind = "web"
    /\ job[j].pc = "begin"
    /\ LET begun == BeginScan(NewScanner, job[j].directory, ModeOf(job[j].directory),
                              QuietCallback)
           set == [is_scanning |-> TRUE,
                   progress_message |-> [kind |-> "start", path |-> ""],
                   files_found |-> 0]
       IN  /\ scanner' = [scanner EXCEPT ![j] = [begun EXCEPT !.emitted = <<>>]]
           /\ sink' = [sink EXCEPT ![j] = begun.emitted]
           /\ scan_status' = set
           /\ job' = [job EXCEPT ![j].pc = IF begun.state = "raised" THEN "except"
                                           ELSE "scanning"]
    /\ UNCHANGED <<fs, index, completed, reply>>

\* cli/scan.py main lines 63-69: the scanner is made and scan_directory is called
CliScanBegins(j, directory) ==
    /\ job[j].kind = "free"
    /\ \A k \in 1..(j - 1) : job[k].kind # "free"
    /\ directory # ""
    /\ LET begun == BeginScan(NewScanner, directory, ModeOf(directory), QuietCallback)
       IN  /\ scanner' = [scanner EXCEPT ![j] = [begun EXCEPT !.emitted = <<>>]]
           /\ sink' = [sink EXCEPT ![j] = begun.emitted]
           /\ job' = [job EXCEPT ![j] = [kind |-> "cli",
                                         pc |-> IF begun.state = "raised" THEN "exit"
                                                ELSE "scanning",
                                         directory |-> "", wrote |-> FALSE]]
    /\ UNCHANGED <<fs, scan_status, index, completed, reply>>

\* the job's scan goes on by one step of _scan_recursive
JobScans(j) ==
    /\ job[j].pc = "scanning"
    /\ \/ Iterdir(j)
       \/ NextItem(j)
       \/ ReturnFromDir(j)
       \/ Propagate(j)
    /\ UNCHANGED <<job, index, completed, reply>>

\* scan_directory returns the files to the job, or raises
JobScanReturns(j) ==
    /\ job[j].pc = "scanning"
    /\ FinishScan(j)
    /\ job' = [job EXCEPT ![j].pc = IF scanner'[j].state = "returned" THEN "save"
                                    ELSE IF job[j].kind = "web" THEN "except"
                                    ELSE "exit"]
    /\ UNCHANGED <<index, completed, reply>>

\* save_index_to_json up to open(): the index file is created or truncated
SaveOpens(j) ==
    /\ job[j].pc = "save"
    /\ index' = OpenForWriting
    /\ job' = [job EXCEPT ![j].pc = "write", ![j].wrote = TRUE]
    /\ scan_status' = IF job[j].kind = "web"
                      THEN [scan_status EXCEPT
                               !.progress_message = [kind |-> "saving", path |-> ""]]
                      ELSE scan_status
    /\ UNCHANGED <<fs, scanner, sink, completed, reply>>

\* save_index_to_json: makedirs() or open() raises OSError, the index is untouched
SaveFails(j) ==
    /\ job[j].pc = "save"
    /\ job' = [job EXCEPT ![j].pc = IF job[j].kind = "web" THEN "except" ELSE "exit"]
    /\ scan_status' = IF job[j].kind = "web"
                      THEN [scan_status EXCEPT
                               !.progress_message = [kind |-> "saving", path |-> ""]]
                      ELSE scan_status
    /\ UNCHANGED <<fs, scanner, sink, index, completed, reply>>

\* save_index_to_json: json.dump and the close of the file
SaveWrites(j) ==
    /\ job[j].pc = "write"
    /\ index' = WriteAndClose(index, JsonDump(scanner[j].scanned_files))
    /\ completed' = j
    /\ job' = [job EXCEPT ![j].pc = IF job[j].kind = "web" THEN "final" ELSE "done"]
    /\ UNCHANGED <<scanVars, reply>>

\* perform_scan lines 151-153
PerformScanReports(j) ==
    /\ job[j].kind = "web"
    /\ job[j].pc = "final"
    /\ scan_status' = [scan_status EXCEPT
                          !.progress_message = [kind |-> "complete", path |-> ""],
                          !.files_found = Len(scanner[j].scanned_files)]
    /\ job' = [job EXCEPT ![j].pc = "finally"]
    /\ UNCHANGED <<fs, scanner, sink, index, completed, reply>>

\* perform_scan lines 155-156
PerformScanExcept(j) ==
    /\ job[j].kind = "web"
    /\ job[j].pc = "except"
    /\ scan_status' = [scan_status EXCEPT
                          !.progress_message = [kind |-> "error", path |-> ""]]
    /\ job' = [job EXCEPT ![j].pc = "finally"]
    /\ UNCHANGED <<fs, scanner, sink, index, completed, reply>>

\* a faulty variant of PerformScanFinally: the thread ends without the reset of line 159
PerformScanFinallyKeeps(j) ==
    /\ job[j].kind = "web"
    /\ job[j].pc = "finally"
    /\ job' = [job EXCEPT ![j].pc = "done"]
    /\ UNCHANGED <<fs, scanner, sink, scan_status, index, completed, reply>>

\* perform_scan lines 158-159
PerformScanFinally(j) ==
    /\ job[j].kind = "web"
    /\ job[j].pc = "finally"
    /\ scan_status' = [scan_status EXCEPT !.is_scanning = FALSE]
    /\ job' = [job EXCEPT ![j].pc = "done"]
    /\ UNCHANGED <<fs, scanner, sink, index, completed, reply>>

\* someone removes directory D1 and what it holds
RemoveDirectory ==
    /\ fs[D1] # "absent"
    /\ fs' = [fs EXCEPT ![D1] = "absent", ![F3] = "absent"]
    /\ UNCHANGED <<scanner, sink, scan_status, appVars>>

(***************************************************************************)
(* The loaders of the index: ui/app.py get_files, cli/find_duplicates.py   *)
(***************************************************************************)
\* the pieces an index text is made of
Tokens ==
    {HeadToken(n) : n \in 0..2} \cup {FileToken(RecordOf(F1)), FileToken(RecordOf(F2)), EndToken}

\* the index files a loader may find: none, or one with a text of up to MaxTokens tokens
IndexFiles ==
    {NoIndex} \cup {[exists |-> TRUE, text |-> t] : t \in SeqsUpTo(Tokens, MaxTokens)}

\* GET /api/files (ui/app.py lines 90-118)
get_files(file) ==
    IF ~file.exists
    THEN [by |-> "api", success |-> TRUE, error |-> "", total_files |-> 0, files |-> <<>>]
    ELSE IF ~JsonValid(file.text)
    THEN [by |-> "api", success |-> FALSE, error |-> "Error reading index file",
          total_files |-> 0, files |-> <<>>]
    ELSE [by |-> "api", success |-> TRUE, error |-> "",
          total_files |-> JsonLoad(file.text).total_files,
          files |-> JsonLoad(file.text).files]

\* cli/find_duplicates.py main, the load of the index (lines 33-54)
load_index(file) ==
    IF ~file.exists
    THEN [by |-> "cli", success |-> FALSE, error |-> "Index file not found",
          total_files |-> 0, files |-> <<>>]
    ELSE IF ~JsonValid(file.text)
    THEN [by |-> "cli", success |-> FALSE, error |-> "Invalid JSON in index file",
          total_files |-> 0, files |-> <<>>]
    ELSE [by |-> "cli", success |-> TRUE, error |-> "",
          total_files |-> Len(JsonLoad(file.text).files),
          files |-> JsonLoad(file.text).files]

GetFiles ==
    /\ reply' = get_files(index)
    /\ UNCHANGED <<job, index, completed, scanVars>>

LoadIndex ==
    /\ reply' = load_index(index)
    /\ UNCHANGED <<job, index, completed, scanVars>>

(***************************************************************************)
(* Specifications.                                                         *)
(***************************************************************************)
AnalyzerSpecInit ==
    /\ AnalyzerInit
    /\ ScanIdle
    /\ CallerIdle
    /\ AppIdle
    /\ fs = [n \in Nodes |-> "absent"]

AnalyzeFind == FindDuplicates /\ UNCHANGED <<scanVars, callerVars, appVars>>
AnalyzeCount == CountDuplicates /\ UNCHANGED <<scanVars, callerVars, appVars>>
AnalyzeWasted == CalculateWastedSpace /\ UNCHANGED <<scanVars, callerVars, appVars>>

AnalyzerNext ==
    \/ AnalyzeFind
    \/ AnalyzeCount
    \/ AnalyzeWasted

\* the duplicate analyzer applied to every list of up to MaxRecords records
SpecAnalyzer == AnalyzerSpecInit /\ [][AnalyzerNext]_vars

ScanSpecInit ==
    /\ AnalyzerIdle
    /\ ScanIdle
    /\ CallerInit
    /\ AppIdle

CallerScans == CallScanDirectory /\ UNCHANGED <<analyzerVars, appVars>>
CallerIterdir == Iterdir(Caller) /\ UNCHANGED <<analyzerVars, callerVars, appVars>>
CallerNextItem == NextItem(Caller) /\ UNCHANGED <<analyzerVars, callerVars, appVars>>
CallerReturnFromDir == ReturnFromDir(Caller) /\ UNCHANGED <<analyzerVars, callerVars, appVars>>
CallerPropagate == Propagate(Caller) /\ UNCHANGED <<analyzerVars, callerVars, appVars>>
CallerFinishScan == CallReturns /\ UNCHANGED <<analyzerVars, appVars>>

ScanNext ==
    \/ CallerScans
    \/ CallerIterdir
    \/ CallerNextItem
    \/ CallerReturnFromDir
    \/ CallerPropagate
    \/ CallerFinishScan

\* scans of every tree of Trees, under every callback of Callbacks
SpecScan == ScanSpecInit /\ [][ScanNext]_vars

AppSpecInit ==
    /\ AnalyzerIdle
    /\ ScanIdle
    /\ CallerIdle
    /\ AppIdle
    /\ fs = [n \in Nodes |-> IF n \in Dirs THEN "dir" ELSE "file"]

Idle == UNCHANGED <<analyzerVars, callerVars>>

RequestRejected == \E d \in RequestedDirectories : StartScanRejects(d) /\ Idle
RequestAccepted == \E j \in Jobs, d \in RequestedDirectories : StartScanAccepts(j, d) /\ Idle
ThreadBegins == \E j \in Jobs : PerformScanBegins(j) /\ Idle
ProcessBegins == \E j \in Jobs, d \in RequestedDirectories : CliScanBegins(j, d) /\ Idle
ScanGoesOn == \E j \in Jobs : JobScans(j) /\ Idle
ScanReturns == \E j \in Jobs : JobScanReturns(j) /\ Idle
IndexOpened == \E j \in Jobs : SaveOpens(j) /\ Idle
IndexNotOpened == \E j \in Jobs : SaveFails(j) /\ Idle
IndexWritten == \E j \in Jobs : SaveWrites(j) /\ Idle
ThreadReports == \E j \in Jobs : PerformScanReports(j) /\ Idle
ThreadExcept == \E j \in Jobs : PerformScanExcept(j) /\ Idle
ThreadFinally == \E j \in Jobs : PerformScanFinally(j) /\ Idle
DirectoryRemoved == RemoveDirectory /\ Idle

AppNext ==
    \/ RequestRejected
    \/ RequestAccepted
    \/ ThreadBegins
    \/ ProcessBegins
    \/ ScanGoesOn
    \/ ScanReturns
    \/ IndexOpened
    \/ IndexNotOpened
    \/ IndexWritten
    \/ ThreadReports
    \/ ThreadExcept
    \/ ThreadFinally
    \/ DirectoryRemoved

\* the web server and scan.py processes, up to MaxJobs scans in all
Spec == AppSpecInit /\ [][AppNext]_vars

\* a step of a started perform_scan thread
ThreadStep ==
    \/ ThreadBegins
    \/ ScanGoesOn
    \/ ScanReturns
    \/ IndexOpened
    \/ IndexNotOpened
    \/ IndexWritten
    \/ ThreadReports
    \/ ThreadExcept
    \/ ThreadFinally

WebNext ==
    \/ RequestRejected
    \/ RequestAccepted
    \/ ThreadBegins
    \/ ScanGoesOn
    \/ ScanReturns
    \/ IndexOpened
    \/ IndexNotOpened
    \/ IndexWritten
    \/ ThreadReports
    \/ ThreadExcept
    \/ ThreadFinally
    \/ DirectoryRemoved

\* the web server alone, where a thread that can take a step is not held up forever
FairSpec == AppSpecInit /\ [][WebNext]_vars /\ WF_vars(ThreadStep)

LoadSpecInit ==
    /\ AnalyzerIdle
    /\ ScanIdle
    /\ CallerIdle
    /\ job = [j \in Jobs |-> FreeJob]
    /\ index \in IndexFiles
    /\ completed = 0
    /\ reply = NoReply
    /\ fs = [n \in Nodes |-> IF n \in Dirs THEN "dir" ELSE "file"]

ApiLoads == GetFiles /\ Idle
CliLoads == LoadIndex /\ Idle

LoadNext ==
    \/ ApiLoads
    \/ CliLoads

\* the two loaders applied to every index file of IndexFiles
SpecLoad == LoadSpecInit /\ [][LoadNext]_vars

(***************************************************************************)
(* Claims about the duplicate analyzer (checked under SpecAnalyzer).       *)
(***************************************************************************)
\* the records that carry hash h together with a non-empty path
ValidIndices(h) ==
    {k \in 1..Len(file_metadata) :
        ~Falsy(file_metadata[k].path) /\ file_metadata[k].hash = h}

\* the non-empty hash values carried by 2 or more such records
RepeatedHashes ==
    {h \in HashValues : ~Falsy(h) /\ Cardinality(ValidIndices(h)) >= 2}

\* C1: once find_duplicates has returned, no group has fewer than 2 members,
\* and the groups correspond one-to-one to the hash values carried by 2 or
\* more records with a non-empty hash and a non-empty path: every path of a
\* group comes from a record carrying that group's hash, and the group has one
\* member per such record. Records without hash or path are in no group.
C1_GroupsAreRepeatedHashes ==
    apc # "loaded" =>
        /\ \A i \in 1..Len(duplicate_groups) : Len(duplicate_groups[i]) >= 2
        /\ Len(duplicate_groups) = Cardinality(RepeatedHashes)
        /\ \E f \in [1..Len(duplicate_groups) -> RepeatedHashes] :
              /\ \A i, j \in 1..Len(duplicate_groups) : f[i] = f[j] => i = j
              /\ \A i \in 1..Len(duplicate_groups) :
                    /\ Len(duplicate_groups[i]) = Cardinality(ValidIndices(f[i]))
                    /\ \A j \in 1..Len(duplicate_groups[i]) :
                          \E k \in ValidIndices(f[i]) :
                              file_metadata[k].path = duplicate_groups[i][j]

\* find_duplicates has returned a group for a hash that a record without a
\* path carries too, and that record is not in the group
C1_Witness ==
    /\ apc # "loaded"
    /\ Len(duplicate_groups) = 1
    /\ Len(duplicate_groups[1]) = 2
    /\ \E k \in 1..Len(file_metadata) :
          /\ Falsy(file_metadata[k].path)
          /\ Cardinality(ValidIndices(file_metadata[k].hash)) = 2

\* the size field of the first record of file_metadata that carries hash h
FirstSeenSize(h) ==
    LET first == CHOOSE k \in 1..Len(file_metadata) :
                    /\ file_metadata[k].hash = h
                    /\ \A m \in 1..(k - 1) : file_metadata[m].hash # h
    IN  file_metadata[first].size

\* C2: calculate_wasted_space(records) is the sum, over the groups that
\* find_duplicates(records) returns, of (members - 1) * size, size being the
\* size field of the first-seen record of the group's hash; it is 0 when no
\* hash value repeats.
C2_WastedSpaceIsSumOverGroups ==
    apc = "done" =>
        LET entries == DuplicateEntries(file_metadata)
        IN  /\ wasted_space =
                  SumSeq([i \in 1..Len(entries) |->
                      (Len(entries[i].paths) - 1) * FirstSeenSize(entries[i].key)])
            /\ (\A k, m \in 1..Len(file_metadata) :
                    (k # m /\ ~Falsy(file_metadata[k].hash))
                        => file_metadata[k].hash # file_metadata[m].hash)
                 => wasted_space = 0

(***************************************************************************)
(* Claims about the scanner (checked under SpecScan).                      *)
(***************************************************************************)
\* the directory a path lies in
Parent(n) == IF n = F3 THEN D1 ELSE Root

\* the directories above a path, up to the scanned root
Ancestors(n) == IF n = Root THEN {} ELSE IF n = F3 THEN {D1, Root} ELSE {Root}

\* the scan comes to path n: every directory above it lists
Examined(n) == \A a \in Ancestors(n) : fs[a] = "dir"

\* the readable regular files that are not beneath a failing directory
ReadableFiles == {f \in Files : fs[f] = "file" /\ Examined(f)}

\* the list holds one record for each readable file, and nothing else
HoldsReadableFiles(files) ==
    /\ Len(files) = Cardinality(ReadableFiles)
    /\ \A f \in ReadableFiles : \E i \in 1..Len(files) : files[i] = RecordOf(f)

\* C3: with an existing root directory, whichever directories fail on listing
\* and whichever entries fail on stat or read, a scan_directory call whose
\* callback (if any) returns normally does not raise, and returns exactly one
\* record for every readable regular file not beneath a failing directory.
C3_ScanToleratesFailures ==
    \A i \in 1..Len(outcomes) :
        (outcomes[i].callback.failOn = "never" /\ fs[Root] \in {"dir", "dir_list_err"})
            => /\ ~outcomes[i].raised
               /\ HoldsReadableFiles(outcomes[i].files)

\* a scan has returned F2's record alone: D1 did not list and F1 failed
C3_Witness ==
    /\ fs[D1] = "dir_list_err"
    /\ fs[F1] \in {"file_stat_err", "file_read_err", "file_vanishes", "stat_denied"}
    /\ fs[F3] = "file"
    /\ Len(outcomes) >= 1
    /\ ~outcomes[1].raised
    /\ outcomes[1].files = <<RecordOf(F2)>>

\* C4: at every point during and after a scan, every record of scanned_files
\* (and so of the list a call returned) has a non-empty hash and belongs to a
\* file that stats and reads: a file whose hash is empty or whose stat fails
\* has no record.
C4_RecordsHaveHash ==
    /\ \A i \in 1..Len(scanner[Caller].scanned_files) :
          /\ scanner[Caller].scanned_files[i].hash # ""
          /\ fs[scanner[Caller].scanned_files[i].path] = "file"
    /\ \A k \in 1..Len(outcomes) : \A i \in 1..Len(outcomes[k].files) :
          /\ outcomes[k].files[i].hash # ""
          /\ fs[outcomes[k].files[i].path] = "file"

\* the scan has passed F1, whose hash is empty, and F3, whose stat fails, and
\* has recorded F2
C4_Witness ==
    /\ fs[F1] \in {"file_read_err", "file_vanishes"}
    /\ fs[F3] = "file_stat_err"
    /\ scanner[Caller].state = "running"
    /\ scanner[Caller].scanned_files = <<RecordOf(F2)>>

\* C9: the progress callback never changes the outcome: on the same tree, a
\* scan_directory call with any callback, one that raises included, returns
\* the same records, and raises or not in the same way, as the call without
\* callback (the caller's first call).
C9_CallbackNeverChangesOutcome ==
    \A i \in 1..Len(outcomes) :
        /\ outcomes[1].callback = NoCallback
        /\ outcomes[i].raised = outcomes[1].raised
        /\ outcomes[i].err = outcomes[1].err
        /\ outcomes[i].files = outcomes[1].files

\* the skip notifications the callback got that name path n
SkipsNaming(j, n) ==
    {i \in 1..Len(sink[j]) :
        sink[j][i].kind \in {"skipped", "skipped_dir"} /\ sink[j][i].path = n}

\* C10: in a finished scan with a progress callback, every regular file that
\* was examined and has no record (its stat failed or its hash is empty) and
\* every directory whose listing failed is named by exactly one skip
\* notification.
C10_EverySkipNotified ==
    (scanner[Caller].state = "returned" /\ scanner[Caller].cb = QuietCallback) =>
        \A n \in Nodes :
            (/\ Examined(n)
             /\ fs[n] \in {"file_stat_err", "file_vanishes", "file_read_err", "dir_list_err"})
                => Cardinality(SkipsNaming(Caller, n)) = 1

\* the "Files found: N" notifications the callback of job j got
Milestones(j) == {i \in 1..Len(sink[j]) : sink[j][i].kind = "found"}

\* C11: in a scan with a progress callback, a "Files found: N" notification is
\* emitted exactly once for each positive multiple of 100 the number of records
\* reaches, when the N-th record is appended (right after the "Scanning"
\* notification of the file recorded as N-th), and at no other time: never with
\* N = 0 and never twice for the same N.
C11_MilestoneOncePerHundred ==
    /\ \A i \in Milestones(Caller) :
          /\ sink[Caller][i].count > 0
          /\ sink[Caller][i].count % MilestoneEvery = 0
          /\ i > 1
          /\ sink[Caller][i - 1].kind = "scanning"
          /\ sink[Caller][i].count <= Len(scanner[Caller].scanned_files)
          /\ scanner[Caller].scanned_files[sink[Caller][i].count].path
                = sink[Caller][i - 1].path
          /\ \A k \in Milestones(Caller) :
                k # i => sink[Caller][k].count # sink[Caller][i].count
    /\ \A n \in 1..Len(scanner[Caller].scanned_files) :
          (scanner[Caller].cb.present /\ n % MilestoneEvery = 0)
              => \E i \in Milestones(Caller) : sink[Caller][i].count = n

(***************************************************************************)
(* Claims about the scan callers and the index (checked under Spec).       *)
(***************************************************************************)
\* C5: a scan of a path that does not exist, or is no directory, fails before
\* any traversal and before any progress notification, and the job writes no
\* index, in the scan.py flow and in the perform_scan flow alike: the job goes
\* to its error exit, and while only such scans have been made the index file
\* is as it was.
C5_BadRootWritesNothing ==
    /\ \A j \in Jobs :
          scanner[j].err = "ValueError" =>
              /\ sink[j] = <<>>
              /\ scanner[j].scanned_files = <<>>
              /\ scanner[j].stack = <<>>
              /\ ~job[j].wrote
              /\ job[j].pc \in {"except", "finally", "done", "exit"}
    /\ (\A j \in Jobs : job[j].kind # "free" => scanner[j].err = "ValueError")
          => index = NoIndex

\* a perform_scan thread and a scan.py process have both failed on their root
C5_Witness ==
    \E j, k \in Jobs :
        /\ job[j].kind = "web" /\ job[j].pc = "done" /\ scanner[j].err = "ValueError"
        /\ job[k].kind = "cli" /\ job[k].pc = "exit" /\ scanner[k].err = "ValueError"

\* the perform_scan threads that have set is_scanning and not yet reset it
InScan ==
    {j \in Jobs : job[j].kind = "web"
                  /\ job[j].pc \in {"scanning", "save", "write", "final", "except", "finally"}}

\* C6: under every interleaving of start-scan requests and perform_scan
\* threads, at most one perform_scan thread is between setting is_scanning to
\* True and resetting it to False (a request made while a scan has been
\* started being rejected).
C6_OneScanAtATime == Cardinality(InScan) <= 1

\* no job is under way
Quiescent == \A j \in Jobs : job[j].pc \in {"free", "done", "exit"}

\* C7: after any sequence of scans, the index file holds exactly the records
\* of the scan that completed last, with total_files the number of records in
\* files.
C7_IndexIsLastScan ==
    (Quiescent /\ completed # 0) =>
        /\ index.exists
        /\ JsonValid(index.text)
        /\ JsonLoad(index.text).files = scanner[completed].scanned_files
        /\ JsonLoad(index.text).total_files = Len(JsonLoad(index.text).files)

(***************************************************************************)
(* Claims about the loaders (checked under SpecLoad).                      *)
(***************************************************************************)
\* C8: whenever the index is loaded, by find_duplicates.py or by GET
\* /api/files, a missing index file and a file that is not valid JSON are each
\* reported as an error, the one error differing from the other, and never
\* as an index without files read with success.
C8_LoadErrorsReported ==
    (reply.by # "" /\ (~index.exists \/ ~JsonValid(index.text))) =>
        /\ ~reply.success
        /\ reply.error # ""
        /\ index.exists =>
              reply.error # (IF reply.by = "cli" THEN load_index(NoIndex)
                                                 ELSE get_files(NoIndex)).error

(***************************************************************************)
(* Claims about the liveness of the web layer (checked under FairSpec).    *)
(***************************************************************************)
\* the perform_scan thread of job j has been started and is not over
ThreadRunning(j) == job[j].kind = "web" /\ job[j].pc # "done"

\* C12: every perform_scan thread that has been started eventually comes to
\* the end of its finally clause, which resets is_scanning, whether the scan
\* and the save succeed or a step raises; whenever no perform_scan thread is
\* running, is_scanning is False; and so is_scanning never stays True forever.
C12_IsScanningIsReset ==
    /\ \A j \in Jobs : ThreadRunning(j) ~> (job[j].kind = "web" /\ job[j].pc = "done")
    /\ []((\A j \in Jobs : ~ThreadRunning(j)) => ~scan_status.is_scanning)
    /\ scan_status.is_scanning ~> ~scan_status.is_scanning

\* two threads are over, one whose save was made and one in which a step
\* raised before the index was opened, and is_scanning is False
C12_Witness ==
    /\ ~scan_status.is_scanning
    /\ \E j, k \in Jobs :
          /\ job[j].kind = "web" /\ job[j].pc = "done" /\ ~job[j].wrote
          /\ job[k].kind = "web" /\ job[k].pc = "done" /\ completed = k

====
